---- MODULE Spec2Model ----
(***************************************************************************)
(* express-redis-rate-limit: the rate limit middleware of src/index.js,    *)
(* run against a redis store (exists, get, pttl, incr, pexpire).           *)
(*                                                                         *)
(* Strings are sequences of one-character strings.  Time is in             *)
(* milliseconds.  An option that the caller did not pass (undefined) is    *)
(* the empty sequence <<>>, a passed value v is <<v>>.                     *)
(***************************************************************************)
EXTENDS Integers, Sequences, FiniteSets, TLC

\* ------------------------------------------------------------------ bounds
\* Number of requests of a concurrent run and of a one-at-a-time run.
MaxReq == 2
MaxSeqReq == 3
\* Store calls that may fault in one run.
MaxFaults == 1
\* The clock advances in steps of TickMs up to MaxTime.
TickMs == 500
MaxTime == 1000

\* --------------------------------------------------------- program values
\* src/index.js:47-50, the default options.
DefaultRequestLimit == 60
DefaultTimeWindow == 60
DefaultIdLen == 24
idValueDefault == <<":", "i", "d">>

\* parseInt of something that is no number, and arithmetic on it.
NaN == 0 - 999999

IsNaN(x) == x = NaN

\* a + b of JavaScript numbers.
Plus(a, b) == IF IsNaN(a) \/ IsNaN(b) THEN NaN ELSE a + b

\* a - b of JavaScript numbers.
Minus(a, b) == IF IsNaN(a) \/ IsNaN(b) THEN NaN ELSE a - b

\* a > b of JavaScript numbers: false when either is NaN.
Gt(a, b) == ~IsNaN(a) /\ ~IsNaN(b) /\ a > b

\* a < b of JavaScript numbers: false when either is NaN.
Lt(a, b) == ~IsNaN(a) /\ ~IsNaN(b) /\ a < b

\* --------------------------------------------------------------- options
undefined == <<>>

\* JavaScript truthiness of an optional number: undefined and 0 are falsy.
TruthyNum(o) == o # undefined /\ o[1] # 0

\* idMatcher values: not passed, false, the /\d+$/ of the test suite, and the
\* default /[a-z0-9]{24}$/.
IdMatcherDigits == "/\\d+$/"
IdMatcherDefault == "/[a-z0-9]{24}$/"

TruthyMatcher(m) == m \notin {"undefined", "false"}

\* rateLimitMessage values: not passed, and the function and the object of the
\* test suite.
Opt(l, w, m, s) ==
  [requestLimit |-> l, timeWindow |-> w, idMatcher |-> m, enforceRequestSpreading |-> s,
   rateLimitMessage |-> "undefined"]

OptMessage(l, w, m, s, msg) == [Opt(l, w, m, s) EXCEPT !.rateLimitMessage = msg]

\* The option objects a limiter is constructed with.
OptionInputs ==
  { Opt(undefined, undefined, "undefined", undefined),
    Opt(<<1>>, <<1>>, IdMatcherDigits, undefined),
    Opt(<<2>>, <<1>>, "false", undefined),
    Opt(<<2>>, <<1>>, IdMatcherDigits, <<TRUE>>),
    Opt(<<2>>, <<1>>, IdMatcherDigits, <<FALSE>>),
    Opt(<<0>>, <<1>>, IdMatcherDigits, undefined),
    Opt(<<0 - 1>>, <<1>>, IdMatcherDigits, undefined),
    Opt(<<1>>, <<0>>, IdMatcherDigits, undefined),
    Opt(<<1>>, <<0 - 1>>, IdMatcherDigits, undefined),
    OptMessage(<<1>>, <<1>>, IdMatcherDigits, undefined, "function"),
    OptMessage(<<1>>, <<1>>, IdMatcherDigits, undefined, "object") }

\* validateOptions: TRUE when it throws.  typeof of the modelled values is
\* always the expected one, so only the value tests can fail.
validateOptionsThrows(o) ==
  \/ TruthyNum(o.requestLimit) /\ ~(o.requestLimit[1] > 0)
  \/ TruthyNum(o.timeWindow) /\ ~(o.timeWindow[1] > 0)

\* lodash defaults(options, defaultOptions): a default fills in only a property
\* that is undefined; every property the caller passed is kept as passed.
defaults(o) ==
  [requestLimit |-> IF o.requestLimit = undefined THEN DefaultRequestLimit
                    ELSE o.requestLimit[1],
   timeWindow |-> IF o.timeWindow = undefined THEN DefaultTimeWindow
                  ELSE o.timeWindow[1],
   idMatcher |-> IF o.idMatcher = "undefined" THEN IdMatcherDefault ELSE o.idMatcher,
   idValue |-> idValueDefault,
   rateLimitMessage |-> IF o.rateLimitMessage = "undefined" THEN "default"
                        ELSE o.rateLimitMessage,
   enforceRequestSpreading |-> o.enforceRequestSpreading]

\* ------------------------------------------------------------------ keys
Ips == {<<"a">>}
Methods == {<<"G">>}
Urls == { <<"/", "i">>, <<"/", "i", "/", "1">>, <<"/", "i", "/", "2">> }
\* The urls of the requests of a concurrent run.
SomeUrls == { <<"/", "i">>, <<"/", "i", "/", "1">> }

\* The url of the requests that contend for one entry.
OneUrl == <<"/", "i">>

Digits == {"0", "1", "2", "3", "4", "5", "6", "7", "8", "9"}
LowerAlNum == Digits \cup {"a", "d", "i"}

\* The default createKey: 'RL/' + req.ip + '/' + req.method + req.url.
createKey(ip, method, url) == <<"R", "L", "/">> \o ip \o <<"/">> \o method \o url

\* Index where the first match of the matcher starts in key, 0 when none.
MatchStart(m, key) ==
  IF m = IdMatcherDigits
  THEN LET S == {i \in 1..Len(key) : \A j \in i..Len(key) : key[j] \in Digits}
       IN IF S = {} THEN 0 ELSE CHOOSE i \in S : \A j \in S : i <= j
  ELSE IF Len(key) >= DefaultIdLen
          /\ \A j \in (Len(key) - DefaultIdLen + 1)..Len(key) : key[j] \in LowerAlNum
       THEN Len(key) - DefaultIdLen + 1
       ELSE 0

\* replaceID that never replaces.
replaceID_Never(opts, key) == key

\* replaceID: key.replace(idMatcher, idValue) when both are truthy.
replaceID(opts, key) ==
  IF TruthyMatcher(opts.idMatcher) /\ opts.idValue # <<>>
  THEN LET s == MatchStart(opts.idMatcher, key)
       IN IF s = 0 THEN key ELSE SubSeq(key, 1, s - 1) \o opts.idValue
  ELSE key

\* ------------------------------------------------------------------ state
VARIABLES
  phase,     \* "init", then "ready" (rateLimit returned) or "threw" (validateOptions threw)
  passed,    \* the options argument of ExpressRedisRateLimit
  options,   \* the options of the limiter (defaultOptions until line 74 has run)
  store,     \* redis: key -> [val, exp], exp the instant of expiry or NoExpiry
  now,       \* the clock of the store, in milliseconds
  req,       \* the rateLimit invocations: position, locals, response
  faults,    \* store calls that have faulted
  removed    \* keys whose entry has been removed (expired or deleted) so far

vars == <<phase, passed, options, store, now, req, faults, removed>>

NoExpiry == 0 - 1

\* One invocation of rateLimit(req, res, done).  pc names the store call that is
\* pending; ops lists the store calls issued; faultAt is Len(ops) at the first
\* fault (0: none); incrs counts the increments the store has applied for it;
\* done counts invocations of the continuation; status is the response status
\* sent (0: none); body is the JSON sent with it (<<>>: none); headers is <<>>
\* or <<the X-RateLimit headers set>>.
IdleRequest ==
  [pc |-> "idle", url |-> <<>>, key |-> <<>>, exists |-> FALSE, count |-> 0, ttl |-> 0,
   atLimit |-> FALSE, called |-> FALSE, status |-> 0, body |-> <<>>, headers |-> <<>>, done |-> 0,
   ops |-> <<>>, faultAt |-> 0, incrs |-> 0, threw |-> FALSE]

InitWith(n) ==
  /\ phase = "init"
  /\ passed \in OptionInputs
  /\ options = defaults(Opt(undefined, undefined, "undefined", undefined))
  /\ store = [x \in {} |-> [val |-> 0, exp |-> NoExpiry]]
  /\ now = 0
  /\ req = [r \in 1..n |-> IdleRequest]
  /\ faults = 0
  /\ removed = {}

Init == InitWith(MaxReq)

InitSeq == InitWith(MaxSeqReq)

\* ExpressRedisRateLimit(cache, options): validate, then fill in the defaults.
ExpressRedisRateLimit ==
  /\ phase = "init"
  /\ IF validateOptionsThrows(passed)
     THEN phase' = "threw" /\ UNCHANGED options
     ELSE phase' = "ready" /\ options' = defaults(passed)
  /\ UNCHANGED <<passed, store, now, req, faults, removed>>

\* ------------------------------------------------------- the store (redis)
EXISTS(k) == k \in DOMAIN store

\* parseInt(reply, 10) of GET: the value, NaN for the nil of a missing key.
GET(k) == IF k \in DOMAIN store THEN store[k].val ELSE NaN

\* PTTL: -2 for a missing key, -1 for a key with no expiry.
PTTL(k) ==
  IF k \notin DOMAIN store THEN 0 - 2
  ELSE IF store[k].exp = NoExpiry THEN 0 - 1
  ELSE store[k].exp - now

Without(k) == [x \in DOMAIN store \ {k} |-> store[x]]

\* INCR: a missing key is created at 1 with no expiry; the expiry of a present
\* key is kept.
INCR(k) ==
  IF k \in DOMAIN store
  THEN [store EXCEPT ![k].val = @ + 1]
  ELSE [x \in DOMAIN store \cup {k} |->
          IF x = k THEN [val |-> 1, exp |-> NoExpiry] ELSE store[x]]

\* PEXPIRE setting the expiry of every entry of the store.
PEXPIRE_EveryKey(k, ms) ==
  IF k \notin DOMAIN store THEN store
  ELSE IF ms <= 0 THEN Without(k)
  ELSE [x \in DOMAIN store |-> [store[x] EXCEPT !.exp = now + ms]]

\* PEXPIRE key ms: nothing for a missing key; a timeout that is not positive
\* deletes the key; otherwise the key expires ms from now.
PEXPIRE(k, ms) ==
  IF k \notin DOMAIN store THEN store
  ELSE IF ms <= 0 THEN Without(k)
  ELSE [store EXCEPT ![k].exp = now + ms]

\* Time passes; the store drops the entries whose expiry has been reached.
Tick ==
  /\ phase = "ready"
  /\ now + TickMs <= MaxTime
  /\ now' = now + TickMs
  /\ LET gone == {k \in DOMAIN store : store[k].exp # NoExpiry /\ store[k].exp <= now'}
     IN /\ store' = [x \in DOMAIN store \ gone |-> store[x]]
        /\ removed' = removed \cup gone
  /\ UNCHANGED <<phase, passed, options, req, faults>>

\* ------------------------------------------------- the waterfall of rateLimit
\* What a faulting store call does to the waterfall.  Every store callback runs
\* "if (error) next(error); next(null, ...)" with no return between the two, so
\* a fault calls next twice.  The async library decides the second call:
\* "continue" - it runs the next task (the final callback, already called, is
\* then without effect); "throw" - it throws "Callback was already called".
FaultModes == {"continue", "throw"}
Modes == {"none"} \cup FaultModes

Issue(q, op) == [q EXCEPT !.pc = op, !.ops = Append(@, op)]

Finish(q) == [q EXCEPT !.pc = "done"]

\* requestsRemaining without the floor at 0.
requestsRemaining_NoFloor(count) == Minus(options.requestLimit, count)

\* requestsRemaining(count).
requestsRemaining(count) ==
  LET remaining == Minus(options.requestLimit, count)
  IN IF Lt(remaining, 0) THEN 0 ELSE remaining

\* setRateLimitHeaders with the window in seconds.
setRateLimitHeaders_WindowSeconds(count, ttl, atLimit) ==
  [Limit |-> options.requestLimit,
   Remaining |-> requestsRemaining(count),
   Window |-> options.timeWindow,
   Reset |-> ttl]

\* setRateLimitHeaders(count, ttl, atLimit): the headers set on the response.
setRateLimitHeaders(count, ttl, atLimit) ==
  [Limit |-> options.requestLimit,
   Remaining |-> requestsRemaining(count),
   Window |-> options.timeWindow * 1000,
   Reset |-> ttl]

\* Math.ceil(ms / 1000).
CeilSeconds(ms) == IF IsNaN(ms) THEN NaN ELSE 0 - ((0 - ms) \div 1000)

\* secondsHuman(ms): the number pluralize puts before "second(s)".
secondsHuman(ms) == CeilSeconds(ms)

\* The default rateLimitMessage(ttl): message, timeout and type.
defaultRateLimitMessage(ttl) == <<"RATE_LIMIT", ttl, secondsHuman(ttl)>>

\* The rateLimitMessage function of the test suite: { wait: ttl }.
waitRateLimitMessage(ttl) == <<"wait", ttl>>

\* The rateLimitMessage object of the test suite.
objectRateLimitMessage == <<"message", "Exceeded rate limit.">>

\* The default internalErrorMessage.
internalErrorMessage == <<"INTERNAL_SERVER_ERROR">>

\* responseJSON calling the function with the count.
responseJSON_OfCount(q) ==
  IF options.rateLimitMessage = "default" THEN defaultRateLimitMessage(q.count)
  ELSE IF options.rateLimitMessage = "function" THEN waitRateLimitMessage(q.count)
  ELSE objectRateLimitMessage

\* responseJSON of rateLimitGate: rateLimitMessage(ttl) when it is a function,
\* else rateLimitMessage itself.
responseJSON(q) ==
  IF options.rateLimitMessage = "default" THEN defaultRateLimitMessage(q.ttl)
  ELSE IF options.rateLimitMessage = "function" THEN waitRateLimitMessage(q.ttl)
  ELSE objectRateLimitMessage

\* rateLimitGate acting on every call of the final callback.
rateLimitGate_EveryCall(q, error) ==
  IF error
  THEN [q EXCEPT !.called = TRUE, !.status = 500, !.body = internalErrorMessage]
  ELSE LET h == [q EXCEPT !.called = TRUE,
                          !.headers = <<setRateLimitHeaders(q.count, q.ttl, q.atLimit)>>]
       IN IF q.atLimit THEN [h EXCEPT !.status = 429, !.body = responseJSON(q)]
          ELSE [h EXCEPT !.done = @ + 1]

\* rateLimitGate that sets the headers only on the way to done().
rateLimitGate_HeadersWhenAllowed(q, error) ==
  IF q.called THEN q
  ELSE IF error
  THEN [q EXCEPT !.called = TRUE, !.status = 500, !.body = internalErrorMessage]
  ELSE IF q.atLimit
  THEN [q EXCEPT !.called = TRUE, !.status = 429, !.body = responseJSON(q)]
  ELSE [q EXCEPT !.called = TRUE, !.done = @ + 1,
                 !.headers = <<setRateLimitHeaders(q.count, q.ttl, q.atLimit)>>]

\* rateLimitGate(error, count, ttl, atLimit), the final callback of the
\* waterfall, which the waterfall calls at most once.
rateLimitGate(q, error) ==
  IF q.called THEN q
  ELSE IF error
  THEN [q EXCEPT !.called = TRUE, !.status = 500, !.body = internalErrorMessage]
  ELSE LET h == [q EXCEPT !.called = TRUE,
                          !.headers = <<setRateLimitHeaders(q.count, q.ttl, q.atLimit)>>]
       IN IF q.atLimit THEN [h EXCEPT !.status = 429, !.body = responseJSON(q)]
          ELSE [h EXCEPT !.done = @ + 1]

\* setRequestTTL that sets the expiry also at the limit.
setRequestTTLCall_AlsoAtLimit(q) == Issue(q, "pexpire")

\* setRequestTTL that never sets the expiry.
setRequestTTLCall_Never(q) == Finish(rateLimitGate(q, FALSE))

\* setRequestTTL(count, ttl, atLimit, next) up to its store call.
setRequestTTLCall(q) ==
  IF q.atLimit THEN Finish(rateLimitGate(q, FALSE)) ELSE Issue(q, "pexpire")

\* incrRequestCount with atLimit = count >= requestLimit.
incrRequestCountCall_AtLimitGe(q, ttl) ==
  LET atLimit == ~IsNaN(q.count) /\ q.count >= options.requestLimit
      q1 == [q EXCEPT !.ttl = ttl, !.atLimit = atLimit]
  IN IF atLimit THEN setRequestTTLCall(q1) ELSE Issue(q1, "incr")

\* incrRequestCount(count, ttl, next) up to its store call.
incrRequestCountCall(q, ttl) ==
  LET atLimit == Gt(q.count, options.requestLimit)
      q1 == [q EXCEPT !.ttl = ttl, !.atLimit = atLimit]
  IN IF atLimit THEN setRequestTTLCall(q1) ELSE Issue(q1, "incr")

\* getRequestTTL asking the store also for a missing key.
getRequestTTLCall_AlwaysPttl(q, count) == Issue([q EXCEPT !.count = count], "pttl")

\* getRequestTTL passing the time window in seconds for a missing key.
getRequestTTLCall_Seconds(q, count) ==
  LET q1 == [q EXCEPT !.count = count]
  IN IF q.exists THEN Issue(q1, "pttl")
     ELSE incrRequestCountCall(q1, options.timeWindow)

\* getRequestTTL(exists, count, next) up to its store call.
getRequestTTLCall(q, count) ==
  LET q1 == [q EXCEPT !.count = count]
  IN IF q.exists THEN Issue(q1, "pttl")
     ELSE incrRequestCountCall(q1, options.timeWindow * 1000)

\* getRequestCount passing 0 for a missing key.
getRequestCountCall_FromZero(q, exists) ==
  LET q1 == [q EXCEPT !.exists = exists]
  IN IF exists THEN Issue(q1, "get") ELSE getRequestTTLCall(q1, 0)

\* getRequestCount(exists, next) up to its store call.
getRequestCountCall(q, exists) ==
  LET q1 == [q EXCEPT !.exists = exists]
  IN IF exists THEN Issue(q1, "get") ELSE getRequestTTLCall(q1, 1)

\* next(error) of a store callback: the final callback gets the error.
nextError(q) ==
  LET q1 == rateLimitGate(q, TRUE)
  IN [q1 EXCEPT !.faultAt = IF @ = 0 THEN Len(q.ops) ELSE @]

\* The second call of next after next(error), when the library throws.
Thrown(q) == [Finish(q) EXCEPT !.threw = TRUE]

\* A store call may fault while the run has faults left.
FaultStep(f) ==
  IF f = "none" THEN UNCHANGED faults
  ELSE faults < MaxFaults /\ faults' = faults + 1

\* rateLimit(req, res, done): derive the key and start the waterfall.
\* Requests are numbered in the order they arrive.
rateLimit(r, ip, method, url) ==
  /\ phase = "ready"
  /\ req[r].pc = "idle"
  /\ IF r = 1 THEN TRUE ELSE req[r - 1].pc # "idle"
  /\ LET key == replaceID(options, createKey(ip, method, url))
     IN req' = [req EXCEPT ![r] = Issue([@ EXCEPT !.url = url, !.key = key], "exists")]
  /\ UNCHANGED <<phase, passed, options, store, now, faults, removed>>

\* checkRequestExists: the reply of cache.exists.  A fault leaves reply
\* undefined and !!parseInt(undefined, 10) is false.
checkRequestExists(r, f) ==
  /\ req[r].pc = "exists"
  /\ FaultStep(f)
  /\ LET q == req[r]
     IN req' = [req EXCEPT ![r] =
          IF f = "none" THEN getRequestCountCall(q, EXISTS(q.key))
          ELSE IF f = "throw" THEN Thrown(nextError(q))
          ELSE getRequestCountCall(nextError(q), FALSE)]
  /\ UNCHANGED <<phase, passed, options, store, now, removed>>

\* getRequestCount: the reply of cache.get.  parseInt(undefined, 10) + 1 is NaN.
getRequestCount(r, f) ==
  /\ req[r].pc = "get"
  /\ FaultStep(f)
  /\ LET q == req[r]
     IN req' = [req EXCEPT ![r] =
          IF f = "none" THEN getRequestTTLCall(q, Plus(GET(q.key), 1))
          ELSE IF f = "throw" THEN Thrown(nextError(q))
          ELSE getRequestTTLCall(nextError(q), Plus(NaN, 1))]
  /\ UNCHANGED <<phase, passed, options, store, now, removed>>

\* getRequestTTL: the reply of cache.pttl.
getRequestTTL(r, f) ==
  /\ req[r].pc = "pttl"
  /\ FaultStep(f)
  /\ LET q == req[r]
     IN req' = [req EXCEPT ![r] =
          IF f = "none" THEN incrRequestCountCall(q, PTTL(q.key))
          ELSE IF f = "throw" THEN Thrown(nextError(q))
          ELSE incrRequestCountCall(nextError(q), NaN)]
  /\ UNCHANGED <<phase, passed, options, store, now, removed>>

\* incrRequestCount: cache.incr and its reply.  A faulting incr changes nothing
\* in the store.
incrRequestCount(r, f) ==
  /\ req[r].pc = "incr"
  /\ FaultStep(f)
  /\ LET q == req[r]
     IN /\ store' = IF f = "none" THEN INCR(q.key) ELSE store
        /\ req' = [req EXCEPT ![r] =
             IF f = "none" THEN setRequestTTLCall([q EXCEPT !.incrs = @ + 1])
             ELSE IF f = "throw" THEN Thrown(nextError(q))
             ELSE setRequestTTLCall(nextError(q))]
  /\ UNCHANGED <<phase, passed, options, now, removed>>

\* setRequestTTL: cache.pexpire and its reply; next is the final callback.
\* redis answers a timeout that is no integer (NaN) with an error, which is
\* not one of the faults of the run.
setRequestTTL(r, f) ==
  /\ req[r].pc = "pexpire"
  /\ LET q == req[r]
     IN /\ IF IsNaN(q.ttl) THEN f # "none" /\ UNCHANGED faults ELSE FaultStep(f)
        /\ store' = IF f = "none" THEN PEXPIRE(q.key, q.ttl) ELSE store
        /\ removed' = IF f = "none" /\ q.key \in DOMAIN store /\ q.ttl <= 0
                      THEN removed \cup {q.key} ELSE removed
        /\ req' = [req EXCEPT ![r] =
             IF f = "none" THEN Finish(rateLimitGate(q, FALSE))
             ELSE IF f = "throw" THEN Thrown(nextError(q))
             ELSE Finish(rateLimitGate(nextError(q), FALSE))]
  /\ UNCHANGED <<phase, passed, options, now>>

\* ---------------------------------------------------------- specifications
Requests == DOMAIN req

\* Requests in flight at once, any store call may fault.
Next ==
  \/ ExpressRedisRateLimit
  \/ \E r \in Requests, ip \in Ips, method \in Methods, url \in SomeUrls :
       rateLimit(r, ip, method, url)
  \/ \E r \in Requests, f \in Modes : checkRequestExists(r, f)
  \/ \E r \in Requests, f \in Modes : getRequestCount(r, f)
  \/ \E r \in Requests, f \in Modes : getRequestTTL(r, f)
  \/ \E r \in Requests, f \in Modes : incrRequestCount(r, f)
  \/ \E r \in Requests, f \in Modes : setRequestTTL(r, f)
  \/ Tick

Spec == Init /\ [][Next]_vars

InFlight == {r \in Requests : req[r].pc \notin {"idle", "done"}}

\* One request at a time (each finishes before the next starts), no store call
\* faults.
NextSeq ==
  \/ ExpressRedisRateLimit
  \/ \E r \in Requests, ip \in Ips, method \in Methods, url \in Urls :
       InFlight = {} /\ rateLimit(r, ip, method, url)
  \/ \E r \in Requests : checkRequestExists(r, "none")
  \/ \E r \in Requests : getRequestCount(r, "none")
  \/ \E r \in Requests : getRequestTTL(r, "none")
  \/ \E r \in Requests : incrRequestCount(r, "none")
  \/ \E r \in Requests : setRequestTTL(r, "none")
  \/ Tick

SpecSeq == InitSeq /\ [][NextSeq]_vars

\* Requests in flight at once, no store call faults, and every call is
\* answered: a step that can be taken is taken in the end.
NextQuiet ==
  \/ ExpressRedisRateLimit
  \/ \E r \in Requests, ip \in Ips, method \in Methods, url \in SomeUrls :
       rateLimit(r, ip, method, url)
  \/ \E r \in Requests : checkRequestExists(r, "none")
  \/ \E r \in Requests : getRequestCount(r, "none")
  \/ \E r \in Requests : getRequestTTL(r, "none")
  \/ \E r \in Requests : incrRequestCount(r, "none")
  \/ \E r \in Requests : setRequestTTL(r, "none")
  \/ Tick

SpecFair == Init /\ [][NextQuiet]_vars /\ WF_vars(NextQuiet)

\* The store answers the pending call of request r, with a reply or an error.
Answer(r) ==
  \E f \in Modes :
    \/ checkRequestExists(r, f)
    \/ getRequestCount(r, f)
    \/ getRequestTTL(r, f)
    \/ incrRequestCount(r, f)
    \/ setRequestTTL(r, f)

\* Requests for one url in flight at once inside one window, any store call
\* may fault, and the store answers every call.
NextAnswered ==
  \/ ExpressRedisRateLimit
  \/ \E r \in Requests, ip \in Ips, method \in Methods :
       rateLimit(r, ip, method, OneUrl)
  \/ \E r \in Requests : Answer(r)

SpecAnswered == Init /\ [][NextAnswered]_vars /\ \A r \in 1..MaxReq : WF_vars(Answer(r))

\* ------------------------------------------------------------ properties
Started == {r \in Requests : req[r].pc # "idle"}
Completed == {r \in Requests : req[r].pc = "done"}

\* The request was let through: done() invoked, no response sent by the limiter.
Allowed(r) == req[r].done = 1 /\ req[r].status = 0

\* The request was answered with 429 and done() was not invoked.
Denied(r) == req[r].status = 429 /\ req[r].done = 0

\* Position of request r among the requests for its key, in order of arrival.
Ordinal(r) == Cardinality({p \in Started : p <= r /\ req[p].key = req[r].key})

\* The window of the key of r is still the one its first request opened.
InOneWindow(r) == req[r].key \notin removed

Max0(x) == IF x < 0 THEN 0 ELSE x

\* C1: with requestLimit N >= 1, of the requests for one key that are processed
\* one after another inside one window with no faults, the first N are allowed
\* and every later one, the (N+1)-th included, is denied with 429.
C1_FirstNAllowedNextDenied ==
  (phase = "ready" /\ options.requestLimit >= 1) =>
    \A r \in Completed :
      InOneWindow(r) =>
        IF Ordinal(r) <= options.requestLimit THEN Allowed(r) ELSE Denied(r)

C1_Witness ==
  /\ phase = "ready" /\ options.requestLimit = 2
  /\ Completed = Requests
  /\ \A r \in Requests : req[r].key = req[1].key
  /\ removed = {}
  /\ Allowed(1) /\ Allowed(2) /\ Denied(3)

AllSameKey == \A r \in Requests : req[r].key = req[1].key

\* C2: when more requests than requestLimit for one key are in flight at once
\* inside one window, with no faults, exactly requestLimit of them are allowed.
C2_ConcurrentExactlyLimit ==
  (/\ phase = "ready" /\ options.requestLimit >= 1
   /\ Cardinality(Requests) > options.requestLimit
   /\ Completed = Requests /\ AllSameKey
   /\ faults = 0 /\ removed = {})
  => Cardinality({r \in Requests : Allowed(r)}) = options.requestLimit

\* C3: with enforceRequestSpreading = true the limiter allows one request per
\* timeWindow / requestLimit: of two requests for one key at the same instant
\* the second is denied with 429.
C3_SpreadingDeniesSecond ==
  (/\ phase = "ready" /\ passed.enforceRequestSpreading = <<TRUE>>
   /\ {1, 2} \subseteq Completed /\ req[1].key = req[2].key
   /\ now = 0)
  => Denied(2)

\* The store call of request r that faulted first.
FaultedOp(r) == req[r].ops[req[r].faultAt]

\* C4: a request with a faulting store call is answered 500, its continuation
\* is never invoked, and it increments nothing (stated here for a fault before
\* the increment has been applied: in exists, get, pttl or incr).
C4_FaultIs500AndNotCounted ==
  \A r \in Requests :
    req[r].faultAt # 0 =>
      /\ req[r].status = 500
      /\ req[r].done = 0
      /\ FaultedOp(r) # "pexpire" => req[r].incrs = 0

\* C5: after its first faulting store call a request issues no further store
\* call.
C5_FaultAbortsSequence ==
  \A r \in Requests : req[r].faultAt # 0 => Len(req[r].ops) = req[r].faultAt

HeaderNames == {"Limit", "Remaining", "Window", "Reset"}

HasHeaders(r) == req[r].headers # <<>> /\ DOMAIN req[r].headers[1] = HeaderNames

\* The limiter has produced the outcome of request r.
HasOutcome(r) == req[r].status # 0 \/ req[r].done > 0

\* C6 as claimed: every outcome (allowed, 429 or 500) carries the four
\* X-RateLimit headers.
C6_HeadersOnEveryOutcome == \A r \in Requests : HasOutcome(r) => HasHeaders(r)

\* C6 as amended: every allowed request and every 429 response carries the four
\* X-RateLimit headers; a 500 response carries none of them.
C6_HeadersOnDecisionOnly ==
  \A r \in Requests :
    /\ (req[r].done > 0 \/ req[r].status = 429) => HasHeaders(r)
    /\ req[r].status = 500 => req[r].headers = <<>>

C6_Witness ==
  \E r, p \in Requests :
    /\ req[r].status = 429 /\ HasHeaders(r)
    /\ req[p].status = 500 /\ req[p].headers = <<>>

\* The urls that differ only in the id that ends them, and what they share.
IdUrls == { <<"/", "i", "/", "1">>, <<"/", "i", "/", "2">> }

\* The resource a url names when ids are matched by /\d+$/.
Resource(url) == IF url \in IdUrls THEN <<"/", "i", "/">> ELSE url

\* The requests r is counted with: with /\d+$/ those for the same resource,
\* otherwise (idMatcher false, or the default matcher on these short urls)
\* those for the same url.
CountedWith(r, p) ==
  IF options.idMatcher = IdMatcherDigits
  THEN Resource(req[p].url) = Resource(req[r].url)
  ELSE req[p].url = req[r].url

SharedOrdinal(r) == Cardinality({p \in Started : p <= r /\ CountedWith(r, p)})

\* C7: requests whose raw keys differ only in the id matched by idMatcher are
\* counted against one store entry (of them the first requestLimit are
\* allowed, the rest denied); with idMatcher false, requests with distinct raw
\* keys have distinct entries and do not affect each other's decision.
C7_IdsShareOneEntry ==
  (phase = "ready" /\ options.requestLimit >= 1) =>
    \A r \in Started :
      /\ \A p \in Started : (req[p].key = req[r].key) <=> CountedWith(r, p)
      /\ (r \in Completed /\ InOneWindow(r)) =>
           IF SharedOrdinal(r) <= options.requestLimit THEN Allowed(r) ELSE Denied(r)

C7_Witness ==
  /\ phase = "ready" /\ options.idMatcher = IdMatcherDigits /\ options.requestLimit = 1
  /\ {1, 2} \subseteq Completed
  /\ req[1].url \in IdUrls /\ req[2].url \in IdUrls /\ req[1].url # req[2].url
  /\ req[1].key = req[2].key /\ removed = {}
  /\ Allowed(1) /\ Denied(2)

C7_WitnessDisabled ==
  /\ phase = "ready" /\ options.idMatcher = "false" /\ options.requestLimit = 2
  /\ Completed = Requests
  /\ req[1].url \in IdUrls /\ req[2].url \in IdUrls /\ req[1].url # req[2].url
  /\ req[3].url = req[1].url
  /\ req[1].key # req[2].key /\ removed = {}
  /\ \A r \in Requests : Allowed(r)

\* C8: no limiter that processes requests holds a requestLimit or timeWindow
\* that is not positive (construction with such a value throws).
C8_ReadyOptionsPositive ==
  (phase = "ready" /\ Started # {}) =>
    (options.requestLimit > 0 /\ options.timeWindow > 0)

Remaining(r) == req[r].headers[1].Remaining

Reset(r) == req[r].headers[1].Reset

\* Two completed requests for one key, p before r, in one window.
Successive(p, r) ==
  /\ p \in Completed /\ r \in Completed /\ p < r
  /\ req[p].key = req[r].key /\ InOneWindow(r)

\* C9: for requests for one key processed one after another inside one window,
\* X-RateLimit-Remaining is max(0, requestLimit - ordinal), is never negative
\* and never grows from one request to the next.
C9_RemainingFloorsAtZero ==
  phase = "ready" =>
    \A r \in Completed :
      InOneWindow(r) =>
        /\ HasHeaders(r)
        /\ Remaining(r) = Max0(options.requestLimit - Ordinal(r))
        /\ Remaining(r) >= 0
        /\ \A p \in Requests : Successive(p, r) => Remaining(r) <= Remaining(p)

C9_Witness ==
  /\ phase = "ready" /\ options.requestLimit = 2
  /\ Completed = Requests /\ AllSameKey /\ removed = {}
  /\ Remaining(1) = 1 /\ Remaining(2) = 0 /\ Remaining(3) = 0

\* C10: X-RateLimit-Reset is timeWindow * 1000 for a request that found no
\* entry for its key, and for requests for one key processed one after another
\* inside one window it is at most the value the previous request got.
C10_ResetNeverGrows ==
  phase = "ready" =>
    \A r \in Completed :
      /\ ~req[r].exists => Reset(r) = options.timeWindow * 1000
      /\ \A p \in Requests : Successive(p, r) => Reset(r) <= Reset(p)

C10_Witness ==
  /\ phase = "ready" /\ removed = {}
  /\ {1, 2, 3} \subseteq Completed /\ AllSameKey
  /\ ~req[1].exists /\ Reset(1) = options.timeWindow * 1000
  /\ Reset(2) < Reset(1) /\ Reset(3) < Reset(2) /\ Reset(3) > 0

\* The body rateLimitMessage yields for the ttl reported in X-RateLimit-Reset.
ExpectedDeniedBody(ttl) ==
  IF passed.rateLimitMessage = "undefined"
  THEN <<"RATE_LIMIT", ttl, IF ttl % 1000 = 0 THEN ttl \div 1000 ELSE ttl \div 1000 + 1>>
  ELSE IF passed.rateLimitMessage = "function" THEN <<"wait", ttl>>
  ELSE <<"message", "Exceeded rate limit.">>

\* C11: the body of every 429 is rateLimitMessage(ttl) for the ttl of the
\* request's Decision when rateLimitMessage is a function, and the configured
\* object when it is one; an allowed request gets no body from the limiter.
C11_DeniedBodyIsRateLimitMessage ==
  phase = "ready" =>
    \A r \in Requests :
      /\ req[r].status = 429 =>
           (HasHeaders(r) /\ ~IsNaN(Reset(r)) /\ req[r].body = ExpectedDeniedBody(Reset(r)))
      /\ req[r].done > 0 => req[r].body = <<>>

C11_Witness ==
  /\ phase = "ready" /\ passed.rateLimitMessage = "function"
  /\ \E r \in Requests :
       /\ req[r].status = 429 /\ req[r].exists
       /\ req[r].body = <<"wait", req[r].ttl>> /\ req[r].ttl = TickMs
  /\ \E r \in Requests : req[r].done > 0 /\ req[r].body = <<>>

C11_WitnessObject ==
  /\ phase = "ready" /\ passed.rateLimitMessage = "object"
  /\ \E r \in Requests : req[r].status = 429 /\ req[r].body = objectRateLimitMessage

\* The requestLimit and timeWindow the limiter was constructed with.
ConfiguredLimit ==
  IF passed.requestLimit = undefined THEN DefaultRequestLimit ELSE passed.requestLimit[1]

ConfiguredWindow ==
  IF passed.timeWindow = undefined THEN DefaultTimeWindow ELSE passed.timeWindow[1]

C13_CounterAtMostLimit ==
  (phase = "ready" /\ options.requestLimit >= 1 /\ faults = 0) =>
    \A k \in DOMAIN store : store[k].val <= options.requestLimit

\* C14: once the expiry of an entry is set, no step moves the instant at which
\* the entry expires to a later one.
C14_ExpiryNeverExtended ==
  [][\A k \in DOMAIN store \cap DOMAIN store' :
       store[k].exp # NoExpiry => store'[k].exp <= store[k].exp]_vars

\* The store calls of a sequence of calls that write: incr and pexpire.
Writes(ops) == {i \in 1..Len(ops) : ops[i] \in {"incr", "pexpire"}}

\* C15: a request whose decision is atLimit writes nothing: the step that
\* decides it leaves the store as it is, and the request has issued neither
\* incr nor pexpire and issues none afterwards.
C15_AtLimitWritesNothing ==
  [][\A r \in Requests :
       (req'[r].atLimit /\ req'[r] # req[r]) =>
         /\ store' = store
         /\ Writes(req'[r].ops) = {}
         /\ req'[r].incrs = 0
         /\ req'[r].pc = "done"]_vars

C15_Witness ==
  \E r \in Requests :
    /\ req[r].atLimit /\ Denied(r)
    /\ req[r].ops = <<"exists", "get", "pttl">>
    /\ req[r].key \in DOMAIN store
    /\ store[req[r].key].val = options.requestLimit

\* Every key a request can have.
AllKeys ==
  {replaceID(defaults(o), createKey(ip, method, url)) :
     o \in OptionInputs, ip \in Ips, method \in Methods, url \in Urls}

\* The last instant the clock reaches.
Horizon == (MaxTime \div TickMs) * TickMs

\* A request that has incremented the entry of k and not yet set its expiry.
PendingExpiry(k) == \E r \in Requests : req[r].key = k /\ req[r].pc = "pexpire"

\* C16: with no faults, an entry without expiry has a request between its incr
\* and its pexpire, so once the requests that wrote it have completed it has
\* an expiry, and every entry is removed in the end (as far as the clock
\* reaches its expiry).
C16_EveryEntryExpires ==
  /\ [](\A k \in DOMAIN store : store[k].exp = NoExpiry => PendingExpiry(k))
  /\ \A k \in AllKeys :
       (k \in DOMAIN store) ~>
         (k \notin DOMAIN store \/ (store[k].exp # NoExpiry /\ store[k].exp > Horizon))

C16_Witness ==
  /\ faults = 0
  /\ \E r \in Requests :
       /\ Denied(r) /\ req[r].key \in removed /\ req[r].key \notin DOMAIN store
       /\ now >= options.timeWindow * 1000

\* Request r completes in this step, and its exists call found no entry.
CompletesFresh(r) == req[r].pc # "done" /\ req'[r].pc = "done" /\ ~req'[r].exists

\* C17: with requestLimit and timeWindow positive, a request (one at a time)
\* that finds no entry for its key, never created or expired, starts a fresh
\* window: count 1, ttl timeWindow * 1000, allowed, and when it completes the
\* store holds the entry with counter 1 expiring timeWindow * 1000 ms later.
C17_FreshWindow ==
  [][(phase = "ready" /\ options.requestLimit >= 1 /\ options.timeWindow >= 1) =>
       \A r \in Requests :
         CompletesFresh(r) =>
           /\ req'[r].count = 1
           /\ req'[r].ttl = options.timeWindow * 1000
           /\ req'[r].done = 1 /\ req'[r].status = 0
           /\ req[r].key \in DOMAIN store'
           /\ store'[req[r].key] = [val |-> 1, exp |-> now' + options.timeWindow * 1000]]_vars

C17_Witness ==
  \E p, r \in Requests :
    /\ p < r /\ req[p].key = req[r].key
    /\ Denied(p) /\ req[r].key \in removed
    /\ Allowed(r) /\ ~req[r].exists /\ req[r].count = 1
    /\ req[r].key \in DOMAIN store
    /\ store[req[r].key] = [val |-> 1, exp |-> now + options.timeWindow * 1000]

\* The place of a store operation in the waterfall.
Rank(op) ==
  CASE op = "exists" -> 1 [] op = "get" -> 2 [] op = "pttl" -> 3
    [] op = "incr" -> 4 [] op = "pexpire" -> 5

Issued(r, op) == \E i \in 1..Len(req[r].ops) : req[r].ops[i] = op

StoreOps == {"exists", "get", "pttl", "incr", "pexpire"}

\* C18: a request issues exists, get, pttl, incr, pexpire in this order, each
\* at most once and the next only after the reply to the one before; get and
\* pttl only when exists reported the key present, incr and pexpire only when
\* the request is not at limit, and pexpire only after its incr has replied.
C18_StoreOpsInOrder ==
  \A r \in Requests :
    LET ops == req[r].ops
    IN /\ \A i, j \in 1..Len(ops) : i < j => Rank(ops[i]) < Rank(ops[j])
       /\ req[r].pc # "idle" => (Len(ops) >= 1 /\ ops[1] = "exists")
       /\ req[r].pc \in StoreOps => ops[Len(ops)] = req[r].pc
       /\ (Issued(r, "get") \/ Issued(r, "pttl")) => req[r].exists
       /\ Issued(r, "pttl") => Issued(r, "get")
       /\ (Issued(r, "incr") \/ Issued(r, "pexpire")) => ~req[r].atLimit
       /\ Issued(r, "pexpire") => (Issued(r, "incr") /\ req[r].pc # "incr")

C18_Witness ==
  \E p, r \in Requests :
    /\ req[p].pc = "done" /\ req[p].ops = <<"exists", "incr", "pexpire">>
    /\ req[r].pc = "done" /\ req[r].ops = <<"exists", "get", "pttl", "incr", "pexpire">>
    /\ req[r].key = req[p].key

\* The stored counter of key k, 0 when the store holds no entry for k.
Counter(k) == IF k \in DOMAIN store THEN store[k].val ELSE 0

\* C19: same-key requests interleaved inside one window (no time passes, so
\* nothing expires), with no faults and positive requestLimit and timeWindow:
\* once all have completed the stored counter is the number of requests that
\* were allowed, each allowed request having incremented once and each denied
\* request not at all.
C19_CounterIsAllowedCount ==
  (/\ phase = "ready" /\ options.requestLimit >= 1 /\ options.timeWindow >= 1
   /\ faults = 0 /\ now = 0
   /\ Completed = Requests /\ AllSameKey)
  => /\ Counter(req[1].key) = Cardinality({r \in Requests : Allowed(r)})
     /\ \A r \in Requests :
          /\ Allowed(r) => req[r].incrs = 1
          /\ Denied(r) => req[r].incrs = 0

\* Request r reached a decision: the final callback ran without an error.
Decided(r) == req[r].pc = "done" /\ req[r].called /\ req[r].status # 500

\* C20: with no faults and positive requestLimit and timeWindow, the ttl of
\* every decision is a number of milliseconds in 1 .. timeWindow * 1000 and
\* its count is an integer >= 1, whatever other requests and the passing of
\* time do to the entry between the request's exists, get and pttl calls.
C20_DecisionTtlAndCountInRange ==
  (phase = "ready" /\ options.requestLimit >= 1 /\ options.timeWindow >= 1 /\ faults = 0) =>
    \A r \in Requests :
      Decided(r) =>
        /\ ~IsNaN(req[r].ttl)
        /\ req[r].ttl > 0 /\ req[r].ttl <= options.timeWindow * 1000
        /\ ~IsNaN(req[r].count)
        /\ req[r].count >= 1

\* The entry of key k as the store holds it, <<>> when it holds none.
Entry(st, k) == IF k \in DOMAIN st THEN <<st[k]>> ELSE <<>>

\* C21: a step of a request for key k leaves the entry of every other key and
\* the record (locals, decision) of every other request as they were, and
\* what it reads is the entry of k: the replies to exists, get and pttl are
\* those of the entry of k alone.
C21_OnlyOwnEntry ==
  [][\A r \in Requests :
       req'[r] # req[r] =>
         LET k == req'[r].key
             answered == faults' = faults
         IN /\ \A p \in Requests \ {r} : req'[p] = req[p]
            /\ \A x \in (DOMAIN store \cup DOMAIN store') \ {k} :
                 Entry(store', x) = Entry(store, x)
            /\ (req[r].pc = "exists" /\ answered) =>
                 req'[r].exists = (Entry(store, k) # <<>>)
            /\ (req[r].pc = "get" /\ answered) =>
                 req'[r].count =
                   IF Entry(store, k) = <<>> THEN NaN ELSE Entry(store, k)[1].val + 1
            /\ (req[r].pc = "pttl" /\ answered) =>
                 req'[r].ttl =
                   IF Entry(store, k) = <<>> THEN 0 - 2
                   ELSE IF Entry(store, k)[1].exp = NoExpiry THEN 0 - 1
                   ELSE Entry(store, k)[1].exp - now]_vars

\* Two requests for different keys, each the first of its key and let through
\* under requestLimit 1 while the other was in its window, each entry at 1.
C21_Witness ==
  \E p, r \in Requests :
    /\ req[p].key # req[r].key
    /\ options.requestLimit = 1
    /\ Allowed(p) /\ Allowed(r)
    /\ req[p].pc = "done" /\ req[r].pc = "done"
    /\ Entry(store, req[p].key) # <<>> /\ Entry(store, req[r].key) # <<>>
    /\ store[req[p].key].val = 1 /\ store[req[r].key].val = 1
    /\ store[req[p].key].exp # store[req[r].key].exp

\* The outcomes of request r: the continuation invoked once and nothing sent,
\* one 429 sent, or one 500 sent.
AllowedOutcome(r) == req[r].done = 1 /\ req[r].status = 0
DeniedOutcome(r) == req[r].done = 0 /\ req[r].status = 429
FaultOutcome(r) == req[r].done = 0 /\ req[r].status = 500

\* C22: when the store answers every call, with a reply or an error, every
\* request that has started ends, and ends with exactly one outcome (allowed,
\* 429, or 500 exactly when a store call faulted); until it ends its pending
\* call can be answered whatever the other requests do, and it never has more
\* than one outcome.
C22_TerminatesWithOneOutcome ==
  /\ \A r \in 1..MaxReq : (req[r].pc # "idle") ~> (req[r].pc = "done")
  /\ [](\A r \in Requests :
          /\ req[r].pc \in StoreOps => ENABLED Answer(r)
          /\ req[r].done <= 1
          /\ HasOutcome(r) => (AllowedOutcome(r) \/ DeniedOutcome(r) \/ FaultOutcome(r))
          /\ req[r].pc = "done" =>
               /\ HasOutcome(r)
               /\ FaultOutcome(r) <=> req[r].faultAt # 0)

\* Both requests have ended, one by a 500 after a fault of its last store call
\* (the final callback was called twice), the other let through.
C22_Witness ==
  \E p, r \in Requests :
    /\ req[p].pc = "done" /\ req[r].pc = "done"
    /\ FaultOutcome(p) /\ req[p].faultAt # 0 /\ FaultedOp(p) = "pexpire"
    /\ AllowedOutcome(r) /\ req[r].key = req[p].key

====
